---- MODULE Spec2Model ----
(***************************************************************************)
(* s1500d: event daemon for the Fujitsu ScanSnap S1500.                    *)
(*                                                                         *)
(* The model follows src/main.rs: the pure functions transitions,          *)
(* check_gesture_timeout and process_transitions are operators, and the    *)
(* control loop run() is a state machine whose program counter pc names    *)
(* the blocking operation the thread is about to perform (try_open,        *)
(* poll_status, the handler process, thread::sleep).                       *)
(*                                                                         *)
(* Option<T> is modelled as a sequence: <<>> is None, <<x>> is Some(x).    *)
(***************************************************************************)
EXTENDS Naturals, Integers, Sequences, FiniteSets, TLC

\* ---- bounds of the model -------------------------------------------------

\* the clock stops advancing at MaxTime ticks
MaxTime == 4
\* gesture_timeout_ms of the configuration, in ticks, is drawn from 1..MaxTimeout
MaxTimeout == 2
\* the button is not read as pressed again once an open run holds MaxPresses presses
MaxPresses == 2
\* the counters of the observers saturate at MaxCount
MaxCount == 2

\* the longest descriptor handed to envelope
MaxCdbLen == 13

\* ---- values ----------------------------------------------------------------

None == <<>>

Some(x) == <<x>>

\* struct State { paper, button }
State == [paper : BOOLEAN, button : BOOLEAN]

\* enum GestureState
Idle == [tag |-> "Idle"]

Pressed(n) == [tag |-> "Pressed", n |-> n]

Released(n, ts) == [tag |-> "Released", n |-> n, ts |-> ts]

\* enum Action
Continue == [tag |-> "Continue"]

RunHandler(script, args) == [tag |-> "RunHandler", script |-> script, args |-> args]

\* the handler path given on the command line or in the configuration
HandlerPath == "/bin/handler.sh"

\* profiles of the test configuration: 1 = "standard", 2 = "legal"
TestProfiles == (1 :> "standard") @@ (2 :> "legal")

\* profiles of a minimal configuration: none
NoProfiles == [k \in {} |-> ""]

\* struct Config: handler, gesture_timeout (ticks), profiles
Config == [handler : {HandlerPath},
           gesture_timeout : 1..MaxTimeout,
           profiles : {TestProfiles, NoProfiles}]

\* enum Mode
LogOnly == [kind |-> "LogOnly"]

Legacy(script) == [kind |-> "Legacy", script |-> script]

ConfigMode(c) == [kind |-> "ConfigMode", config |-> c]

Modes == {LogOnly, Legacy(HandlerPath)} \cup {ConfigMode(c) : c \in Config}

\* ---- pure functions ---------------------------------------------------------

\* Event::tag
tag(ev) ==
    CASE ev = "DeviceArrived" -> "device-arrived"
      [] ev = "DeviceLeft"    -> "device-left"
      [] ev = "PaperIn"       -> "paper-in"
      [] ev = "PaperOut"      -> "paper-out"
      [] ev = "ButtonDown"    -> "button-down"
      [] ev = "ButtonUp"      -> "button-up"

\* transitions yielding the button event before the paper event
transitions_buttonFirst(p, c) ==
    (IF ~p.button /\ c.button THEN <<"ButtonDown">> ELSE <<>>)
    \o (IF p.button /\ ~c.button THEN <<"ButtonUp">> ELSE <<>>)
    \o (IF ~p.paper /\ c.paper THEN <<"PaperIn">> ELSE <<>>)
    \o (IF p.paper /\ ~c.paper THEN <<"PaperOut">> ELSE <<>>)

\* transitions(prev, curr): the four optional events, flattened in order
transitions(p, c) ==
    (IF ~p.paper /\ c.paper THEN <<"PaperIn">> ELSE <<>>)
    \o (IF p.paper /\ ~c.paper THEN <<"PaperOut">> ELSE <<>>)
    \o (IF ~p.button /\ c.button THEN <<"ButtonDown">> ELSE <<>>)
    \o (IF p.button /\ ~c.button THEN <<"ButtonUp">> ELSE <<>>)

\* check_gesture_timeout returning None for a press count without a profile
check_gesture_timeout_unmapped(g, m, t) ==
    IF m.kind # "ConfigMode" THEN None
    ELSE IF g.tag # "Released" THEN None
    ELSE IF t - g.ts < m.config.gesture_timeout THEN None
    ELSE IF g.n \in DOMAIN m.config.profiles
         THEN Some(RunHandler(m.config.handler, <<"scan", m.config.profiles[g.n]>>))
         ELSE None

\* check_gesture_timeout without the test of the elapsed time
check_gesture_timeout_eager(g, m, t) ==
    IF m.kind # "ConfigMode" THEN None
    ELSE IF g.tag # "Released" THEN None
    ELSE IF g.n \in DOMAIN m.config.profiles
         THEN Some(RunHandler(m.config.handler, <<"scan", m.config.profiles[g.n]>>))
         ELSE Some(Continue)

\* check_gesture_timeout(gesture, mode) at clock reading t: Option<Action>
check_gesture_timeout(g, m, t) ==
    IF m.kind # "ConfigMode" THEN None
    ELSE IF g.tag # "Released" THEN None
    ELSE IF t - g.ts < m.config.gesture_timeout THEN None
    ELSE IF g.n \in DOMAIN m.config.profiles
         THEN Some(RunHandler(m.config.handler, <<"scan", m.config.profiles[g.n]>>))
         ELSE Some(Continue)

\* ButtonDownArm with the count of the open run forgotten on a further press
ButtonDownArm_restart(g) ==
    CASE g.tag = "Idle"     -> Pressed(1)
      [] g.tag = "Released" -> Pressed(1)
      [] g.tag = "Pressed"  -> Pressed(g.n)

\* ButtonDownArm opening a run with a count of zero
ButtonDownArm_fromZero(g) ==
    CASE g.tag = "Idle"     -> Pressed(0)
      [] g.tag = "Released" -> Pressed(g.n + 1)
      [] g.tag = "Pressed"  -> Pressed(g.n)

\* ButtonDownArm counting a down while already down as a new press
ButtonDownArm_recount(g) ==
    CASE g.tag = "Idle"     -> Pressed(1)
      [] g.tag = "Released" -> Pressed(g.n + 1)
      [] g.tag = "Pressed"  -> Pressed(g.n + 1)

\* the ButtonDown arm of process_transitions
ButtonDownArm(g) ==
    CASE g.tag = "Idle"     -> Pressed(1)
      [] g.tag = "Released" -> Pressed(g.n + 1)
      [] g.tag = "Pressed"  -> Pressed(g.n)

\* ButtonUpArm stamping the release with the start of the clock
ButtonUpArm_epoch(g, t) ==
    IF g.tag = "Pressed" THEN Released(g.n, 0) ELSE Idle

\* the ButtonUp arm of process_transitions, at clock reading t
ButtonUpArm(g, t) ==
    IF g.tag = "Pressed" THEN Released(g.n, t) ELSE Idle

\* LogOnlyArm dispatching like the Legacy arm
LogOnlyArm_dispatch(ev) == Some(RunHandler(HandlerPath, <<tag(ev)>>))

\* the LogOnly arm of process_transitions: the action it returns for an event
LogOnlyArm(ev) == None

\* process_transitions: the for loop over evs from index i on, with the early
\* returns; yields the action, the gesture and the tags logged by info!
RECURSIVE ProcessFrom(_, _, _, _, _, _)
ProcessFrom(evs, i, m, g, t, logged) ==
    IF i > Len(evs)
    THEN [action |-> Continue, gesture |-> g, logged |-> logged]
    ELSE LET ev == evs[i] IN
         CASE m.kind = "ConfigMode" ->
                 IF ev = "ButtonDown"
                 THEN ProcessFrom(evs, i + 1, m, ButtonDownArm(g), t, logged)
                 ELSE IF ev = "ButtonUp"
                 THEN ProcessFrom(evs, i + 1, m, ButtonUpArm(g, t), t, logged)
                 ELSE [action |-> RunHandler(m.config.handler, <<tag(ev)>>),
                       gesture |-> g, logged |-> Append(logged, tag(ev))]
           [] m.kind = "Legacy" ->
                 [action |-> RunHandler(m.script, <<tag(ev)>>),
                  gesture |-> g, logged |-> Append(logged, tag(ev))]
           [] m.kind = "LogOnly" ->
                 IF LogOnlyArm(ev) = None
                 THEN ProcessFrom(evs, i + 1, m, g, t, Append(logged, tag(ev)))
                 ELSE [action |-> LogOnlyArm(ev)[1], gesture |-> g,
                       logged |-> Append(logged, tag(ev))]

\* process_transitions giving up the gesture when it dispatches an event
process_transitions_paperResets(p, c, m, g, t) ==
    LET r == ProcessFrom(transitions(p, c), 1, m, g, t, <<>>) IN
    IF r.action.tag = "RunHandler" THEN [r EXCEPT !.gesture = Idle] ELSE r

\* process_transitions aggregating button events in Legacy mode too
process_transitions_legacyGestures(p, c, m, g, t) ==
    ProcessFrom(transitions(p, c), 1,
                IF m.kind = "Legacy"
                THEN ConfigMode([handler |-> m.script, gesture_timeout |-> 1,
                                 profiles |-> TestProfiles])
                ELSE m,
                g, t, <<>>)

\* process_transitions taking the events of a poll in the opposite order
process_transitions_lastFirst(p, c, m, g, t) ==
    LET evs == transitions(p, c) IN
    ProcessFrom(IF Len(evs) = 2 THEN <<evs[2], evs[1]>> ELSE evs, 1, m, g, t, <<>>)

\* process_transitions treating ConfigMode like Legacy with the config's handler
process_transitions_rawButtons(p, c, m, g, t) ==
    ProcessFrom(transitions(p, c), 1,
                IF m.kind = "ConfigMode" THEN Legacy(m.config.handler) ELSE m,
                g, t, <<>>)

process_transitions(p, c, m, g, t) == ProcessFrom(transitions(p, c), 1, m, g, t, <<>>)

\* ---- the Fujitsu USB protocol ----------------------------------------------------

\* the size of the command envelope, [u8; 31]
EnvelopeLen == 31

\* the index of the envelope at which the CDB is copied
CdbOffset == 19

\* the first byte of the envelope, 0x43
EnvelopeTag == 67

\* the size of the response buffer of poll_status, [0u8; 64]
ResponseLen == 64

\* GHS_CDB: opcode 0xC2, allocation length 12
GHS_CDB == <<194, 0, 0, 0, 0, 0, 0, 0, 12, 0>>

\* the outcomes of envelope: the array, or the panic of an out-of-range slice
Wrapped(bytes) == [tag |-> "Ok", bytes |-> bytes]

Panic == [tag |-> "Panic"]

\* envelope copying the CDB one byte early
envelope_early(cdb) ==
    IF CdbOffset + Len(cdb) > EnvelopeLen THEN Panic
    ELSE LET zeroed == [i \in 1..EnvelopeLen |-> 0]
             tagged == [zeroed EXCEPT ![1] = EnvelopeTag]
         IN  Wrapped([i \in 1..EnvelopeLen |->
                        IF i \in CdbOffset..(CdbOffset + Len(cdb) - 1)
                        THEN cdb[i - CdbOffset + 1] ELSE tagged[i]])

\* envelope(cdb); the byte at index k of the array is element k + 1 of the sequence
envelope(cdb) ==
    IF CdbOffset + Len(cdb) > EnvelopeLen THEN Panic
    ELSE LET zeroed == [i \in 1..EnvelopeLen |-> 0]
             tagged == [zeroed EXCEPT ![1] = EnvelopeTag]
         IN  Wrapped([i \in 1..EnvelopeLen |->
                        IF i - 1 \in CdbOffset..(CdbOffset + Len(cdb) - 1)
                        THEN cdb[i - CdbOffset] ELSE tagged[i]])

\* the bitwise and of two bytes
RECURSIVE BitAnd(_, _)
BitAnd(x, y) ==
    IF x = 0 \/ y = 0 THEN 0
    ELSE (x % 2) * (y % 2) + 2 * BitAnd(x \div 2, y \div 2)

\* from_response testing only the held bit 0x20 of the button byte
from_response_heldOnly(b) ==
    [paper  |-> IF Len(b) > 3 THEN BitAnd(b[4], 128) = 0 ELSE FALSE,
     button |-> IF Len(b) > 4 THEN BitAnd(b[5], 32) # 0 ELSE FALSE]

\* State::from_response(buf); buf.get(k) is element k + 1 of the sequence
from_response(b) ==
    [paper  |-> IF Len(b) > 3 THEN BitAnd(b[4], 128) = 0 ELSE FALSE,
     button |-> IF Len(b) > 4 THEN BitAnd(b[5], 33) # 0 ELSE FALSE]

\* the three arms of the match on Command::status() in run_handler
HandlerOutcomes == {"success", "nonzero", "launch_failed"}

\* run_handler(script, args): the handler process it starts and waits for
run_handler(script, args) == Some([script |-> script, args |-> args])

\* emit_handler(mode, args): the handler process it runs, if any
emit_handler(m, args) ==
    CASE m.kind = "LogOnly"    -> None
      [] m.kind = "Legacy"     -> run_handler(m.script, args)
      [] m.kind = "ConfigMode" -> run_handler(m.config.handler, args)

\* release_usb leaving the interface claimed
release_usb_keep(h) == h

\* release_usb(handle): the interface is released and the handle dropped
release_usb(h) == FALSE

\* ---- state ---------------------------------------------------------------------

VARIABLES
    mode,          \* the Mode run() was started with
    was_present,   \* run: was_present
    prev,          \* run: prev, Option<State>
    gesture,       \* run: gesture
    handle,        \* TRUE while this process holds the claimed device handle
    pc,            \* the operation run() is about to perform
    state,         \* run: the status polled in this iteration, Option<State>
    running,       \* the handler process being waited for, if any
    now,           \* the monotonic clock, in ticks
    lifeBalance,   \* device-arrived emissions minus device-left emissions
    staleLoss,     \* a failed status query ended a session since prev was last written
    staleDispatch, \* a handler was dispatched since prev was last written
    needBackoff,   \* a failure occurred and no reconnect sleep has followed it yet
    paperSeq,      \* Legacy: the course of the paper readings so far
    paperInCalls,  \* Legacy: handler invocations with paper-in, saturating
    sessPrev,      \* the status polled before `state` in this session, if any
    reported,      \* the event tags info! logged for the last processed poll
    scenB,         \* ConfigMode: progress of the run down, up, down, up, timeout
    scenCalls,     \* ConfigMode: the handler invocations made during that run
    status,        \* the outcome of the last handler process waited for
    iterCalls,     \* dispatches started in this iteration of 'poll, saturating
    cdb,           \* envelope: the descriptor to wrap
    cmd,           \* poll_status: the envelope built for cdb, if built
    buf,           \* poll_status: the bytes read_bulk returned, buf[..n]
    decoded        \* poll_status: the State decoded from buf, if decoded

progVars == <<mode, was_present, prev, gesture, handle, pc, state, running, now>>

obsVars == <<lifeBalance, staleLoss, staleDispatch, needBackoff, paperSeq,
             paperInCalls, sessPrev, reported, scenB, scenCalls, status, iterCalls>>

protoVars == <<cdb, cmd, buf, decoded>>

vars == <<mode, was_present, prev, gesture, handle, pc, state, running, now,
          lifeBalance, staleLoss, staleDispatch, needBackoff, paperSeq,
          paperInCalls, sessPrev, reported, scenB, scenCalls, status, iterCalls,
          cdb, cmd, buf, decoded>>

Min(a, b) == IF a < b THEN a ELSE b

\* ---- observers --------------------------------------------------------------

\* the course of the paper readings after one more reading:
\*   none -> absent -> rose (absent, then present once and since)
\*   none -> present (present from the first reading); anything else: other
PaperSeqNext(q, paper) ==
    CASE q = "none"    -> IF paper THEN "present" ELSE "absent"
      [] q = "absent"  -> IF paper THEN "rose" ELSE "absent"
      [] q = "rose"    -> IF paper THEN "rose" ELSE "other"
      [] q = "present" -> IF paper THEN "present" ELSE "other"
      [] q = "other"   -> "other"

\* a status reading s arrives (poll or re-seed poll)
ObserveReading(s) ==
    paperSeq' = IF mode.kind = "Legacy" THEN PaperSeqNext(paperSeq, s.paper) ELSE paperSeq

\* progress of the run after a poll that was diffed against p
ScenAfterDiff(k, p, s, g) ==
    LET evs == transitions(p, s) IN
    IF mode.kind # "ConfigMode" \/ p.paper # s.paper THEN 0
    ELSE CASE k \in {0, 5} -> IF evs = <<"ButtonDown">> /\ g = Idle THEN 1 ELSE 0
           [] k = 1 -> IF evs = <<>> THEN 1 ELSE IF evs = <<"ButtonUp">> THEN 2 ELSE 0
           [] k = 2 -> IF evs = <<>> THEN 2 ELSE IF evs = <<"ButtonDown">> THEN 3 ELSE 0
           [] k = 3 -> IF evs = <<>> THEN 3 ELSE IF evs = <<"ButtonUp">> THEN 4 ELSE 0
           [] k = 4 -> IF evs = <<>> THEN 4 ELSE 0

\* progress of the run after the timeout check returned `ga`
ScenAfterCheck(k, ga) ==
    IF ga = None THEN (IF k = 5 THEN 0 ELSE k)
    ELSE IF k = 4 THEN 5 ELSE 0

\* the invocations of the run after this step: k2 is the progress after the
\* step, h the handler the step starts (None: none)
ScenCallsNext(k2, h) ==
    LET sofar == IF scenB \in {0, 5} THEN <<>> ELSE scenCalls IN
    IF k2 = 0 THEN <<>>
    ELSE IF h = None \/ Len(sofar) >= MaxCount THEN sofar
    ELSE Append(sofar, h[1].args)

\* a handler process h (Option) is started by this step
ObserveStart(h) ==
    paperInCalls' = IF mode.kind = "Legacy" /\ h # None /\ h[1].args = <<"paper-in">>
                    THEN Min(paperInCalls + 1, MaxCount) ELSE paperInCalls

\* a dispatch h (Option) is started by this step of the iteration
CountStart(h) ==
    iterCalls' = IF h = None THEN iterCalls ELSE Min(iterCalls + 1, MaxCount)

\* ---- run() ---------------------------------------------------------------------

Init ==
    /\ mode \in Modes
    /\ was_present = FALSE
    /\ prev = None
    /\ gesture = Idle
    /\ handle = FALSE
    /\ pc = "open"
    /\ state = None
    /\ running = None
    /\ now = 0
    /\ lifeBalance = 0
    /\ staleLoss = FALSE
    /\ staleDispatch = FALSE
    /\ needBackoff = FALSE
    /\ paperSeq = "none"
    /\ paperInCalls = 0
    /\ sessPrev = None
    /\ reported = <<>>
    /\ scenB = 0
    /\ scenCalls = <<>>
    /\ status = "none"
    /\ iterCalls = 0
    /\ cdb = GHS_CDB
    /\ cmd = None
    /\ buf = <<>>
    /\ decoded = None

\* the clock advances while the thread sleeps or waits for the handler
Tick ==
    /\ pc \in {"backoff", "sleep", "emit_arrived", "emit_left", "gesture_handler", "handler"}
    /\ now < MaxTime
    /\ now' = now + 1
    /\ UNCHANGED <<mode, was_present, prev, gesture, handle, pc, state, running>>
    /\ UNCHANGED obsVars
    /\ UNCHANGED protoVars

\* Phase 1: try_open succeeds; device-arrived is emitted if !was_present
TryOpenOk ==
    /\ pc = "open"
    /\ handle' = TRUE
    /\ sessPrev' = None
    /\ IF was_present
       THEN /\ pc' = "check"
            /\ UNCHANGED <<was_present, running, lifeBalance>>
            /\ ObserveStart(None)
       ELSE /\ lifeBalance' = lifeBalance + 1
            /\ running' = emit_handler(mode, <<tag("DeviceArrived")>>)
            /\ ObserveStart(running')
            /\ IF running' = None
               THEN was_present' = TRUE /\ pc' = "check"
               ELSE was_present' = was_present /\ pc' = "emit_arrived"
    /\ UNCHANGED <<mode, prev, gesture, state, now>>
    /\ UNCHANGED <<staleLoss, staleDispatch, needBackoff, paperSeq, reported, scenB, scenCalls>>
    /\ UNCHANGED status
    /\ UNCHANGED protoVars
    /\ iterCalls' = 0

\* ForgetDevice without was_present = false
ForgetDevice_stillPresent ==
    /\ was_present' = was_present
    /\ prev' = None
    /\ gesture' = Idle
    /\ staleLoss' = FALSE
    /\ staleDispatch' = FALSE

\* the None arm of Phase 1 after emit_handler: the session state is forgotten
ForgetDevice ==
    /\ was_present' = FALSE
    /\ prev' = None
    /\ gesture' = Idle
    /\ staleLoss' = FALSE
    /\ staleDispatch' = FALSE

\* Phase 1: try_open fails; device-left is emitted if was_present
TryOpenFail ==
    /\ pc = "open"
    /\ needBackoff' = TRUE
    /\ IF was_present
       THEN /\ lifeBalance' = lifeBalance - 1
            /\ running' = emit_handler(mode, <<tag("DeviceLeft")>>)
            /\ ObserveStart(running')
            /\ IF running' = None
               THEN ForgetDevice /\ pc' = "backoff"
               ELSE /\ pc' = "emit_left"
                    /\ UNCHANGED <<was_present, prev, gesture, staleLoss, staleDispatch>>
       ELSE /\ pc' = "backoff"
            /\ ObserveStart(None)
            /\ UNCHANGED <<was_present, prev, gesture, running, lifeBalance,
                           staleLoss, staleDispatch>>
    /\ UNCHANGED <<mode, handle, state, now>>
    /\ UNCHANGED <<paperSeq, sessPrev, reported, scenB, scenCalls>>
    /\ UNCHANGED status
    /\ UNCHANGED protoVars
    /\ UNCHANGED iterCalls

\* run_handler returns for a lifecycle event, whatever the handler's outcome
EmitDone ==
    /\ pc \in {"emit_arrived", "emit_left"}
    /\ running' = None
    /\ \E outcome \in HandlerOutcomes : status' = outcome
    /\ IF pc = "emit_arrived"
       THEN /\ was_present' = TRUE
            /\ pc' = "check"
            /\ UNCHANGED <<prev, gesture, staleLoss, staleDispatch>>
       ELSE /\ ForgetDevice
            /\ pc' = "backoff"
    /\ UNCHANGED <<mode, handle, state, now>>
    /\ UNCHANGED <<lifeBalance, needBackoff, paperSeq, paperInCalls, sessPrev,
                   reported, scenB, scenCalls>>
    /\ UNCHANGED protoVars
    /\ iterCalls' = 0

\* thread::sleep(RECONNECT_INTERVAL)
Backoff ==
    /\ pc = "backoff"
    /\ pc' = "open"
    /\ needBackoff' = FALSE
    /\ UNCHANGED <<mode, was_present, prev, gesture, handle, state, running, now>>
    /\ UNCHANGED <<lifeBalance, staleLoss, staleDispatch, paperSeq, paperInCalls,
                   sessPrev, reported, scenB, scenCalls>>
    /\ UNCHANGED status
    /\ UNCHANGED protoVars
    /\ UNCHANGED iterCalls

\* CheckGesture dispatching the action without gesture = Idle
CheckGesture_keepGesture ==
    /\ pc = "check"
    /\ LET ga == check_gesture_timeout(gesture, mode, now) IN
       /\ scenB' = ScenAfterCheck(scenB, ga)
       /\ IF ga = None
          THEN /\ pc' = "poll"
               /\ UNCHANGED <<gesture, handle, running, staleDispatch>>
          ELSE /\ gesture' = gesture
               /\ IF ga[1].tag = "Continue"
                  THEN /\ pc' = "poll"
                       /\ UNCHANGED <<handle, running, staleDispatch>>
                  ELSE /\ handle' = release_usb(handle)
                       /\ running' = run_handler(ga[1].script, ga[1].args)
                       /\ staleDispatch' = TRUE
                       /\ pc' = "gesture_handler"
    /\ ObserveStart(running')
    /\ scenCalls' = ScenCallsNext(scenB', IF running' = running THEN None ELSE running')
    /\ UNCHANGED <<mode, was_present, prev, state, now>>
    /\ UNCHANGED <<lifeBalance, staleLoss, needBackoff, paperSeq, sessPrev, reported>>
    /\ UNCHANGED status
    /\ UNCHANGED protoVars
    /\ CountStart(running')

\* Phase 2, top of 'poll: check_gesture_timeout, and the start of its dispatch
CheckGesture ==
    /\ pc = "check"
    /\ LET ga == check_gesture_timeout(gesture, mode, now) IN
       /\ scenB' = ScenAfterCheck(scenB, ga)
       /\ IF ga = None
          THEN /\ pc' = "poll"
               /\ UNCHANGED <<gesture, handle, running, staleDispatch>>
          ELSE /\ gesture' = Idle
               /\ IF ga[1].tag = "Continue"
                  THEN /\ pc' = "poll"
                       /\ UNCHANGED <<handle, running, staleDispatch>>
                  ELSE /\ handle' = release_usb(handle)
                       /\ running' = run_handler(ga[1].script, ga[1].args)
                       /\ staleDispatch' = TRUE
                       /\ pc' = "gesture_handler"
    /\ ObserveStart(running')
    /\ scenCalls' = ScenCallsNext(scenB', IF running' = running THEN None ELSE running')
    /\ UNCHANGED <<mode, was_present, prev, state, now>>
    /\ UNCHANGED <<lifeBalance, staleLoss, needBackoff, paperSeq, sessPrev, reported>>
    /\ UNCHANGED status
    /\ UNCHANGED protoVars
    /\ CountStart(running')

\* HandlerDone giving up the session when the handler could not be launched
HandlerDone_launchFatal ==
    /\ pc \in {"gesture_handler", "handler"}
    /\ running' = None
    /\ \E outcome \in HandlerOutcomes :
          /\ status' = outcome
          /\ pc' = IF outcome = "launch_failed" THEN "open"
                   ELSE IF pc = "gesture_handler" THEN "gesture_reopen" ELSE "reopen"
    /\ reported' = <<>>
    /\ UNCHANGED <<mode, was_present, prev, gesture, handle, state, now>>
    /\ UNCHANGED <<lifeBalance, staleLoss, staleDispatch, needBackoff, paperSeq,
                   paperInCalls, sessPrev, scenB, scenCalls>>
    /\ UNCHANGED protoVars
    /\ UNCHANGED iterCalls

\* run_handler returns after a dispatch, whatever the handler's outcome
HandlerDone ==
    /\ pc \in {"gesture_handler", "handler"}
    /\ running' = None
    /\ \E outcome \in HandlerOutcomes : status' = outcome
    /\ reported' = <<>>
    /\ pc' = IF pc = "gesture_handler" THEN "gesture_reopen" ELSE "reopen"
    /\ UNCHANGED <<mode, was_present, prev, gesture, handle, state, now>>
    /\ UNCHANGED <<lifeBalance, staleLoss, staleDispatch, needBackoff, paperSeq,
                   paperInCalls, sessPrev, scenB, scenCalls>>
    /\ UNCHANGED protoVars
    /\ UNCHANGED iterCalls

\* BreakPoll leaving run() instead of starting the outer loop over
BreakPoll_terminates ==
    /\ pc' = "returned"
    /\ handle' = FALSE
    /\ state' = None
    /\ needBackoff' = TRUE
    /\ reported' = <<>>
    /\ scenB' = 0
    /\ scenCalls' = <<>>
    /\ UNCHANGED <<mode, was_present, prev, gesture, running, now>>
    /\ UNCHANGED <<lifeBalance, staleDispatch, paperSeq, paperInCalls, sessPrev>>
    /\ UNCHANGED status
    /\ UNCHANGED protoVars
    /\ iterCalls' = 0

\* break 'poll: the handle goes out of scope and the outer loop starts over
BreakPoll ==
    /\ pc' = "open"
    /\ handle' = FALSE
    /\ state' = None
    /\ needBackoff' = TRUE
    /\ reported' = <<>>
    /\ scenB' = 0
    /\ scenCalls' = <<>>
    /\ UNCHANGED <<mode, was_present, prev, gesture, running, now>>
    /\ UNCHANGED <<lifeBalance, staleDispatch, paperSeq, paperInCalls, sessPrev>>
    /\ UNCHANGED status
    /\ UNCHANGED protoVars
    /\ iterCalls' = 0

\* try_open after the handler succeeds
ReopenOk ==
    /\ pc \in {"gesture_reopen", "reopen"}
    /\ handle' = TRUE
    /\ pc' = IF pc = "gesture_reopen" THEN "gesture_reseed" ELSE "reseed"
    /\ UNCHANGED <<mode, was_present, prev, gesture, state, running, now>>
    /\ UNCHANGED obsVars
    /\ UNCHANGED protoVars

\* try_open after the handler fails: reclaim failed, device gone
ReopenFail ==
    /\ pc \in {"gesture_reopen", "reopen"}
    /\ BreakPoll
    /\ UNCHANGED staleLoss

\* the fresh poll_status after the reclaim succeeds: prev = Some(fresh)
ReseedOk ==
    /\ pc \in {"gesture_reseed", "reseed"}
    /\ \E fresh \in State :
          /\ prev' = Some(fresh)
          /\ sessPrev' = Some(fresh)
          /\ ObserveReading(fresh)
    /\ staleLoss' = FALSE
    /\ staleDispatch' = FALSE
    /\ pc' = IF pc = "gesture_reseed" THEN "poll" ELSE "sleep"
    /\ UNCHANGED <<mode, was_present, gesture, handle, state, running, now>>
    /\ UNCHANGED <<lifeBalance, needBackoff, paperInCalls, reported, scenB, scenCalls>>
    /\ UNCHANGED status
    /\ UNCHANGED protoVars
    /\ UNCHANGED iterCalls

\* the fresh poll_status after the reclaim fails
ReseedFail ==
    /\ pc \in {"gesture_reseed", "reseed"}
    /\ BreakPoll
    /\ UNCHANGED staleLoss

\* poll_status succeeds
PollOk ==
    /\ pc = "poll"
    /\ \E s \in State :
          /\ (gesture.tag = "Released" /\ gesture.n >= MaxPresses) => ~s.button
          /\ state' = Some(s)
          /\ ObserveReading(s)
    /\ pc' = "match"
    /\ UNCHANGED <<mode, was_present, prev, gesture, handle, running, now>>
    /\ UNCHANGED <<lifeBalance, staleLoss, staleDispatch, needBackoff, paperInCalls,
                   sessPrev, reported, scenB, scenCalls>>
    /\ UNCHANGED status
    /\ UNCHANGED protoVars
    /\ UNCHANGED iterCalls

\* poll_status fails: poll failed, assuming device left
PollFail ==
    /\ pc = "poll"
    /\ BreakPoll
    /\ staleLoss' = TRUE

\* Match leaving the baseline as it was after a poll that dispatches nothing
Match_keepBaseline ==
    /\ pc = "match"
    /\ IF prev = None
       THEN /\ prev' = state
            /\ reported' = <<>>
            /\ pc' = "sleep"
            /\ staleLoss' = FALSE
            /\ staleDispatch' = FALSE
            /\ scenB' = 0
            /\ UNCHANGED <<gesture, handle, state, running>>
       ELSE LET r == process_transitions(prev[1], state[1], mode, gesture, now) IN
            /\ gesture' = r.gesture
            /\ reported' = r.logged
            /\ scenB' = ScenAfterDiff(scenB, prev[1], state[1], gesture)
            /\ IF r.action.tag = "Continue"
               THEN /\ prev' = prev
                    /\ pc' = "sleep"
                    /\ staleLoss' = FALSE
                    /\ staleDispatch' = FALSE
                    /\ UNCHANGED <<handle, state, running>>
               ELSE /\ handle' = release_usb(handle)
                    /\ running' = run_handler(r.action.script, r.action.args)
                    /\ staleDispatch' = TRUE
                    /\ state' = None
                    /\ pc' = "handler"
                    /\ UNCHANGED <<prev, staleLoss>>
    /\ ObserveStart(running')
    /\ scenCalls' = ScenCallsNext(scenB', IF running' = running THEN None ELSE running')
    /\ UNCHANGED <<mode, was_present, now>>
    /\ UNCHANGED <<lifeBalance, needBackoff, paperSeq, sessPrev>>
    /\ UNCHANGED status
    /\ UNCHANGED protoVars
    /\ CountStart(running')

\* match prev: the baseline, or process_transitions and the start of its dispatch
Match ==
    /\ pc = "match"
    /\ IF prev = None
       THEN /\ prev' = state
            /\ reported' = <<>>
            /\ pc' = "sleep"
            /\ staleLoss' = FALSE
            /\ staleDispatch' = FALSE
            /\ scenB' = 0
            /\ UNCHANGED <<gesture, handle, state, running>>
       ELSE LET r == process_transitions(prev[1], state[1], mode, gesture, now) IN
            /\ gesture' = r.gesture
            /\ reported' = r.logged
            /\ scenB' = ScenAfterDiff(scenB, prev[1], state[1], gesture)
            /\ IF r.action.tag = "Continue"
               THEN /\ prev' = state
                    /\ pc' = "sleep"
                    /\ staleLoss' = FALSE
                    /\ staleDispatch' = FALSE
                    /\ UNCHANGED <<handle, state, running>>
               ELSE /\ handle' = release_usb(handle)
                    /\ running' = run_handler(r.action.script, r.action.args)
                    /\ staleDispatch' = TRUE
                    /\ state' = None
                    /\ pc' = "handler"
                    /\ UNCHANGED <<prev, staleLoss>>
    /\ ObserveStart(running')
    /\ scenCalls' = ScenCallsNext(scenB', IF running' = running THEN None ELSE running')
    /\ UNCHANGED <<mode, was_present, now>>
    /\ UNCHANGED <<lifeBalance, needBackoff, paperSeq, sessPrev>>
    /\ UNCHANGED status
    /\ UNCHANGED protoVars
    /\ CountStart(running')

\* thread::sleep at the bottom of 'poll, or before continue 'poll
Sleep ==
    /\ pc = "sleep"
    /\ pc' = "check"
    /\ state' = None
    /\ sessPrev' = IF state # None THEN state ELSE sessPrev
    /\ reported' = <<>>
    /\ UNCHANGED <<mode, was_present, prev, gesture, handle, running, now>>
    /\ UNCHANGED <<lifeBalance, staleLoss, staleDispatch, needBackoff, paperSeq,
                   paperInCalls, scenB, scenCalls>>
    /\ UNCHANGED status
    /\ UNCHANGED protoVars
    /\ iterCalls' = 0

Next ==
    \/ Tick
    \/ TryOpenOk
    \/ TryOpenFail
    \/ EmitDone
    \/ Backoff
    \/ CheckGesture
    \/ HandlerDone
    \/ ReopenOk
    \/ ReopenFail
    \/ ReseedOk
    \/ ReseedFail
    \/ PollOk
    \/ PollFail
    \/ Match
    \/ Sleep

Spec == Init /\ [][Next]_vars

\* ---- typing -----------------------------------------------------------------------

TypeOK ==
    /\ mode \in Modes
    /\ was_present \in BOOLEAN
    /\ prev \in {None} \cup {Some(s) : s \in State}
    /\ gesture.tag \in {"Idle", "Pressed", "Released"}
    /\ gesture.tag # "Idle" => gesture.n \in 1..MaxPresses
    /\ gesture.tag = "Released" => gesture.ts \in 0..MaxTime
    /\ handle \in BOOLEAN
    /\ state \in {None} \cup {Some(s) : s \in State}
    /\ now \in 0..MaxTime
    /\ status \in HandlerOutcomes \cup {"none"}

\* ---- claims ------------------------------------------------------------------------

InnerLoop == {"check", "gesture_handler", "gesture_reopen", "gesture_reseed",
              "poll", "match", "handler", "reopen", "reseed", "sleep"}

DispatchPcs == {"gesture_handler", "gesture_reopen", "gesture_reseed",
                "handler", "reopen", "reseed"}

TagsOf(evs) == [i \in 1..Len(evs) |-> tag(evs[i])]

C2_RebaselineAfterQueryFailure ==
    (pc = "match" /\ staleLoss) => prev = None

\* C3: every diff after a handler dispatch has as its previous state a
\* snapshot observed after that dispatch's handler completed, also when the
\* reacquire or the re-seed poll failed in between.
C3_DiffAfterDispatchIsFresh ==
    (pc = "match" /\ prev # None) => ~staleDispatch

\* C4: in Legacy mode, while the paper readings have gone from absent to
\* present at most once and never back, the handler has been invoked with
\* paper-in at most once.
C4_PaperInDispatchedAtMostOnce ==
    (mode.kind = "Legacy" /\ paperSeq \in {"none", "absent", "rose"}) => paperInCalls <= 1

\* C5: whenever the outer loop is about to open the device, every failure
\* before it has been followed by the reconnect backoff sleep.
C5_BackoffBeforeEveryRetry ==
    pc = "open" => ~needBackoff

\* C6: device-arrived and device-left emissions strictly alternate, starting
\* with device-arrived (every prefix has as many arrivals as departures, or one
\* more); inside a session device-arrived has been emitted and not yet
\* answered, and after a failed open of a present device device-left has been.
C6_LifecycleAlternates ==
    /\ lifeBalance \in {0, 1}
    /\ pc = "emit_arrived" => (lifeBalance = 1 /\ ~was_present)
    /\ pc = "emit_left" => (lifeBalance = 0 /\ was_present)
    /\ pc \notin {"emit_arrived", "emit_left"} =>
           lifeBalance = (IF was_present THEN 1 ELSE 0)
    /\ pc \in InnerLoop => was_present
    /\ pc = "backoff" => ~was_present

\* device-left has been emitted for a device that was present
C6_Witness ==
    pc = "emit_left" /\ running # None /\ running[1].args = <<"device-left">>

\* C7: in LogOnly mode no handler process ever runs, no dispatch is ever in
\* progress, and the gesture-timeout check returns no action.
C7_LogOnlyNeverRunsHandler ==
    mode.kind = "LogOnly" =>
        /\ running = None
        /\ pc \notin DispatchPcs \cup {"emit_arrived", "emit_left"}
        /\ check_gesture_timeout(gesture, mode, now) = None

\* LogOnly has processed a poll with two events and goes on polling
C7_Witness ==
    mode.kind = "LogOnly" /\ pc = "sleep" /\ reported = <<"paper-in", "button-down">>

\* C8: in LogOnly mode the events reported for a poll are exactly the diff of
\* the snapshot polled before it in the same session and the snapshot polled,
\* and none for the first poll of a session.
C8_SessionEventsAreTheDiffs ==
    (mode.kind = "LogOnly" /\ pc = "sleep") =>
        reported = (IF sessPrev = None THEN <<>>
                    ELSE TagsOf(transitions(sessPrev[1], state[1])))

\* C9: in ConfigMode with profiles {1: standard, 2: legal}, a run of polls
\* observing button down, up, down, up, the second down before the timeout of
\* the first release, invokes no handler before its timeout and exactly one,
\* with (scan, legal), when its timeout has elapsed.
C9_DoublePressScansLegal ==
    (mode.kind = "ConfigMode" /\ mode.config.profiles = TestProfiles) =>
        /\ scenB \in 1..4 => scenCalls = <<>>
        /\ scenB = 5 => scenCalls = << <<"scan", "legal">> >>

\* the run has been finalized and its handler is running
C9_Witness ==
    /\ mode.kind = "ConfigMode" /\ mode.config.profiles = TestProfiles
    /\ scenB = 5 /\ pc = "gesture_handler" /\ running # None

\* C10: process_transitions, given Released(n, since) before its timeout and
\* a diff without ButtonDown, leaves the gesture at Released(n, since).
C10_ReleasedKeepsWaiting ==
    (/\ pc = "match" /\ prev # None
     /\ mode.kind = "ConfigMode"
     /\ gesture.tag = "Released"
     /\ now - gesture.ts < mode.config.gesture_timeout
     /\ \A i \in 1..Len(transitions(prev[1], state[1])) :
            transitions(prev[1], state[1])[i] # "ButtonDown")
    => process_transitions(prev[1], state[1], mode, gesture, now).gesture = gesture

\* C11: the gesture is Idle while a finalization's dispatch is in progress,
\* when a session has just ended (break 'poll: query failure, failed re-seed
\* poll, reacquire failure) and at the first timeout check of every session.
C11_GestureIdleAfterFinalizeAndLoss ==
    /\ pc \in {"gesture_handler", "gesture_reopen", "gesture_reseed"} => gesture = Idle
    /\ (pc = "open" /\ needBackoff) => gesture = Idle
    /\ (pc = "check" /\ sessPrev = None) => gesture = Idle

\* the timeout of the pending release has elapsed at the timeout check
TimeoutElapsed ==
    /\ mode.kind = "ConfigMode"
    /\ gesture.tag = "Released"
    /\ now - gesture.ts >= mode.config.gesture_timeout

\* C12: in ConfigMode the timeout check of Released(n, since) with
\* now - since >= gesture_timeout sets the gesture to Idle and, if n is a key
\* of profiles, releases the link and runs the handler with [scan, profiles[n]];
\* otherwise it runs no handler and goes on to poll.
C12_FinalizeDispatchesMappedProfile ==
    [][(pc = "check" /\ TimeoutElapsed) =>
          /\ gesture' = Idle
          /\ IF gesture.n \in DOMAIN mode.config.profiles
             THEN /\ running' = Some([script |-> mode.config.handler,
                                      args |-> <<"scan", mode.config.profiles[gesture.n]>>])
                  /\ pc' = "gesture_handler"
             ELSE /\ running' = None
                  /\ pc' = "poll"]_vars

\* a single press has been finalized and its handler runs with (scan, standard)
C12_Witness ==
    /\ pc = "gesture_handler" /\ gesture = Idle
    /\ running = Some([script |-> HandlerPath, args |-> <<"scan", "standard">>])

\* C13: the timeout check starts no handler and leaves the gesture as it is
\* whenever the mode is not ConfigMode, or the gesture is Idle or Pressed, or
\* it is Released(n, since) with now - since < gesture_timeout.
C13_TimeoutCheckIsNoOpOtherwise ==
    [][(pc = "check" /\ ~TimeoutElapsed) =>
          /\ gesture' = gesture
          /\ running' = None
          /\ handle' = handle
          /\ pc' = "poll"]_vars

\* the timeout check has passed over a release whose timeout has not elapsed
C13_Witness ==
    /\ pc = "poll" /\ mode.kind = "ConfigMode" /\ gesture.tag = "Released"
    /\ now - gesture.ts < mode.config.gesture_timeout

\* the diff of a ConfigMode poll against the baseline is exactly the events evs
GesturedDiffIs(evs) ==
    /\ pc = "match" /\ mode.kind = "ConfigMode" /\ prev # None
    /\ transitions(prev[1], state[1]) = evs

\* C14: in ConfigMode a poll whose diff is ButtonDown alone takes the gesture
\* from Idle to Pressed(1), from Released(n, _) to Pressed(n + 1) and from
\* Pressed(n) to Pressed(n), starts no handler and keeps the link.
C14_ButtonDownCountsPress ==
    [][GesturedDiffIs(<<"ButtonDown">>) =>
          /\ gesture.tag = "Idle" => gesture' = [tag |-> "Pressed", n |-> 1]
          /\ gesture.tag = "Released" => gesture' = [tag |-> "Pressed", n |-> gesture.n + 1]
          /\ gesture.tag = "Pressed" => gesture' = gesture
          /\ running' = None
          /\ handle' = handle
          /\ pc' = "sleep"]_vars

\* a second press has been counted after a release and no handler has started
C14_Witness ==
    /\ mode.kind = "ConfigMode" /\ pc = "sleep" /\ running = None
    /\ gesture = Pressed(2) /\ state # None /\ state[1].button

\* C15: in ConfigMode a poll whose diff is ButtonUp alone, met in Pressed(n),
\* takes the gesture to Released(n, now) and starts no handler.
C15_ButtonUpStampsRelease ==
    [][(GesturedDiffIs(<<"ButtonUp">>) /\ gesture.tag = "Pressed") =>
          /\ gesture' = [tag |-> "Released", n |-> gesture.n, ts |-> now]
          /\ running' = None
          /\ handle' = handle
          /\ pc' = "sleep"]_vars

\* a second press has been released after the start of the clock
C15_Witness ==
    /\ mode.kind = "ConfigMode" /\ pc = "sleep" /\ running = None
    /\ gesture.tag = "Released" /\ gesture.n = 2 /\ gesture.ts = now /\ now > 0
    /\ state # None /\ ~state[1].button

\* the positions of evs that hold an event of the set kinds
Positions(evs, kinds) == {i \in 1..Len(evs) : evs[i] \in kinds}

\* C16: for the baseline and the reading of every diffed poll, transitions
\* yields PaperIn iff paper went false to true, PaperOut iff true to false,
\* ButtonDown iff button went false to true, ButtonUp iff true to false; at
\* most one paper event and one button event, the paper event first; nothing
\* for equal snapshots; never DeviceArrived or DeviceLeft.
C16_DiffYieldsExactlyTheChanges ==
    (pc = "match" /\ prev # None) =>
        LET p == prev[1]
            c == state[1]
            evs == transitions(p, c)
            paperAt == Positions(evs, {"PaperIn", "PaperOut"})
            buttonAt == Positions(evs, {"ButtonDown", "ButtonUp"})
        IN  /\ Positions(evs, {"PaperIn"}) # {} <=> (~p.paper /\ c.paper)
            /\ Positions(evs, {"PaperOut"}) # {} <=> (p.paper /\ ~c.paper)
            /\ Positions(evs, {"ButtonDown"}) # {} <=> (~p.button /\ c.button)
            /\ Positions(evs, {"ButtonUp"}) # {} <=> (p.button /\ ~c.button)
            /\ Cardinality(paperAt) <= 1
            /\ Cardinality(buttonAt) <= 1
            /\ \A i \in paperAt : \A j \in buttonAt : i < j
            /\ p = c => evs = <<>>
            /\ Positions(evs, {"DeviceArrived", "DeviceLeft"}) = {}
            /\ paperAt \cup buttonAt = 1..Len(evs)

\* a poll in which paper and button both went from false to true is diffed
C16_Witness ==
    /\ pc = "match" /\ prev = Some([paper |-> FALSE, button |-> FALSE])
    /\ state = Some([paper |-> TRUE, button |-> TRUE])

\* C17: when the handler of a dispatch completes, with any of the three
\* outcomes, the next step is the attempt to reacquire the link (then the
\* re-seed poll) and no variable of run() differs between the outcomes.
C17_HandlerOutcomeIsIgnored ==
    [][(pc \in {"handler", "gesture_handler"} /\ running # None /\ running' = None) =>
          /\ status' \in HandlerOutcomes
          /\ pc' = (IF pc = "handler" THEN "reopen" ELSE "gesture_reopen")
          /\ UNCHANGED <<mode, was_present, prev, gesture, handle, state, now>>]_vars

\* the handler of an event dispatch could not be launched and the link has
\* been reacquired: the re-seed poll is next
C17_Witness ==
    pc = "reseed" /\ status = "launch_failed" /\ handle /\ running = None

\* the control points of Phase 1, the outer loop that waits for the device
OuterLoop == {"open", "backoff", "emit_arrived", "emit_left"}

\* a step of run() itself, the passing of time aside
RunStep ==
    \/ TryOpenOk \/ TryOpenFail \/ EmitDone \/ Backoff \/ CheckGesture
    \/ HandlerDone \/ ReopenOk \/ ReopenFail \/ ReseedOk \/ ReseedFail
    \/ PollOk \/ PollFail \/ Match \/ Sleep

\* C18: in every reachable state, whatever failed before, run() is in the
\* outer acquire loop or in the inner poll loop and has a next step; and a
\* failed reacquire after a dispatch leads to the outer loop's try_open.
C18_NoErrorTerminates ==
    /\ [](pc \in OuterLoop \cup InnerLoop /\ ENABLED RunStep)
    /\ [][(pc \in {"reopen", "gesture_reopen"} /\ ~handle') =>
             (pc' = "open" /\ running' = None)]_vars

\* a dispatched handler exited non-zero, the reacquire failed and run() is
\* back at the outer loop's try_open
C18_Witness ==
    pc = "open" /\ needBackoff /\ staleDispatch /\ status = "nonzero" /\ ~handle

\* the values of the profile map of config c
Labels(c) == {c.profiles[k] : k \in DOMAIN c.profiles}

\* C19: in ConfigMode every handler invocation carries exactly one of
\* (device-arrived), (device-left), (paper-in), (paper-out) or (scan, label)
\* with label a value of profiles; never button-down or button-up.
C19_GesturedHandlerArguments ==
    (mode.kind = "ConfigMode" /\ running # None) =>
        /\ running[1].script = mode.config.handler
        /\ running[1].args \in
              {<<"device-arrived">>, <<"device-left">>, <<"paper-in">>, <<"paper-out">>}
              \cup {<<"scan", l>> : l \in Labels(mode.config)}

\* ConfigMode dispatches paper-out for a poll diffed against a baseline with paper
C19_Witness ==
    /\ mode.kind = "ConfigMode" /\ pc = "handler" /\ running # None
    /\ running[1].args = <<"paper-out">>
    /\ prev # None /\ prev[1].paper /\ ~prev[1].button

\* C20: in ConfigMode every ButtonDown and ButtonUp of a poll's diff is
\* applied to the gesture, also when the same diff holds a paper event.
C20_ButtonEventsAlwaysApplied ==
    [][(pc = "match" /\ mode.kind = "ConfigMode" /\ prev # None) =>
          LET evs == transitions(prev[1], state[1]) IN
          /\ Positions(evs, {"ButtonDown"}) # {} => gesture' = ButtonDownArm(gesture)
          /\ Positions(evs, {"ButtonUp"}) # {} => gesture' = ButtonUpArm(gesture, now)]_vars

\* the tag Legacy dispatches for baseline p and reading c: the paper change if
\* there is one, else the button change; none for equal snapshots
FirstChangeTag(p, c) ==
    IF ~p.paper /\ c.paper THEN <<"paper-in">>
    ELSE IF p.paper /\ ~c.paper THEN <<"paper-out">>
    ELSE IF ~p.button /\ c.button THEN <<"button-down">>
    ELSE IF p.button /\ ~c.button THEN <<"button-up">>
    ELSE <<>>

\* C21: in Legacy mode a diffed poll with at least one event starts exactly
\* one handler, the script with the tag of the first event (paper before
\* button) as its single argument; a poll without events starts none; and no
\* other step of the poll loop starts a handler.
C21_LegacyDispatchesFirstEventOnly ==
    [][mode.kind = "Legacy" =>
          /\ (pc = "match" /\ prev # None) =>
                IF FirstChangeTag(prev[1], state[1]) = <<>>
                THEN running' = None /\ pc' = "sleep"
                ELSE /\ running' = Some([script |-> mode.script,
                                         args |-> FirstChangeTag(prev[1], state[1])])
                     /\ pc' = "handler"
          /\ (pc \in InnerLoop /\ running' # None /\ running' # running) =>
                (pc = "match" /\ running = None)]_vars

\* Legacy has dispatched button-up and the handler is running
C21_Witness ==
    /\ mode.kind = "Legacy" /\ pc = "handler"
    /\ running = Some([script |-> mode.script, args |-> <<"button-up">>])

\* ---- the command envelope ------------------------------------------------------

\* run() has not been started: its variables while the protocol functions are
\* exercised on their own
RunNotStarted ==
    /\ mode = LogOnly
    /\ was_present = FALSE
    /\ prev = None
    /\ gesture = Idle
    /\ handle = FALSE
    /\ pc = "open"
    /\ state = None
    /\ running = None
    /\ now = 0
    /\ lifeBalance = 0
    /\ staleLoss = FALSE
    /\ staleDispatch = FALSE
    /\ needBackoff = FALSE
    /\ paperSeq = "none"
    /\ paperInCalls = 0
    /\ sessPrev = None
    /\ reported = <<>>
    /\ scenB = 0
    /\ scenCalls = <<>>
    /\ status = "none"
    /\ iterCalls = 0

\* the byte values descriptors are built from
CdbBytes == {0, 170}

EnvelopeInit ==
    /\ RunNotStarted
    /\ cdb \in {<<>>, GHS_CDB}
    /\ cmd = None
    /\ buf = <<>>
    /\ decoded = None

\* the caller extends the descriptor by one byte
AppendByte ==
    /\ Len(cdb) < MaxCdbLen
    /\ \E b \in CdbBytes : cdb' = Append(cdb, b)
    /\ cmd' = None
    /\ UNCHANGED <<buf, decoded>>
    /\ UNCHANGED <<progVars, obsVars>>

\* let cmd = envelope(&cdb)
Envelope ==
    /\ cmd = None
    /\ cmd' = Some(envelope(cdb))
    /\ UNCHANGED <<cdb, buf, decoded>>
    /\ UNCHANGED <<progVars, obsVars>>

EnvelopeNext ==
    \/ AppendByte
    \/ Envelope

EnvelopeSpec == EnvelopeInit /\ [][EnvelopeNext]_vars

\* C22: for every descriptor of at most 12 bytes the envelope has exactly 31
\* bytes: byte 0 is 0x43, bytes 1 to 18 are zero, the bytes from 19 on are the
\* descriptor, and all bytes after the descriptor are zero.
C22_EnvelopeLayout ==
    (cmd # None /\ Len(cdb) <= 12) =>
        /\ cmd[1].tag = "Ok"
        /\ Len(cmd[1].bytes) = 31
        /\ cmd[1].bytes[0 + 1] = 67
        /\ \A k \in 1..18 : cmd[1].bytes[k + 1] = 0
        /\ \A j \in 1..Len(cdb) : cmd[1].bytes[19 + (j - 1) + 1] = cdb[j]
        /\ \A k \in (19 + Len(cdb))..30 : cmd[1].bytes[k + 1] = 0

\* the GET_HW_STATUS descriptor has been wrapped
C22_Witness ==
    cdb = GHS_CDB /\ cmd # None /\ cmd[1].tag = "Ok" /\ cmd[1].bytes[20] = 194

\* ---- decoding of the status response --------------------------------------------

\* byte values that differ in the tested bits 0x80, 0x20 and 0x01 and in others
SampleBytes == {0, 1, 32, 33, 127, 128, 222, 255}

\* every byte value
Bytes == 0..255

\* the bytes filling the positions of a response other than bytes 3 and 4
Fillers == {0, 255}

\* the response of n bytes with b3 at index 3, b4 at index 4, f elsewhere
Response(n, b3, b4, f) ==
    [i \in 1..n |-> IF i = 4 THEN b3 ELSE IF i = 5 THEN b4 ELSE f]

\* the responses decoded: every length up to ResponseLen with sampled bytes,
\* and short responses with every value of byte 3 and of byte 4
DecodeInit ==
    /\ RunNotStarted
    /\ cdb = GHS_CDB
    /\ cmd = None
    /\ decoded = None
    /\ \/ \E n \in 0..ResponseLen, b3 \in SampleBytes, b4 \in SampleBytes, f \in Fillers :
              buf = Response(n, b3, b4, f)
       \/ \E n \in 0..6, b3 \in Bytes, b4 \in SampleBytes, f \in Fillers :
              buf = Response(n, b3, b4, f)
       \/ \E n \in 0..6, b3 \in SampleBytes, b4 \in Bytes, f \in Fillers :
              buf = Response(n, b3, b4, f)

\* Some(State::from_response(&buf[..n]))
Decode ==
    /\ decoded = None
    /\ decoded' = Some(from_response(buf))
    /\ UNCHANGED <<cdb, cmd, buf>>
    /\ UNCHANGED <<progVars, obsVars>>

DecodeNext == Decode

DecodeSpec == DecodeInit /\ [][DecodeNext]_vars

\* bit k of byte b
Bit(b, k) == (b \div (2 ^ k)) % 2

\* C23: for every response of 0 to 64 bytes, paper is true iff there is a byte
\* at index 3 and its bit 0x80 is clear, and button is true iff there is a
\* byte at index 4 and its bit 0x20 or its bit 0x01 is set; a response too
\* short for a field decodes that field to false; nothing else matters.
C23_DecodeReadsThreeBits ==
    decoded # None =>
        /\ Len(buf) \in 0..64
        /\ decoded[1].paper <=> (Len(buf) >= 4 /\ Bit(buf[3 + 1], 7) = 0)
        /\ decoded[1].button <=>
              (Len(buf) >= 5 /\ (Bit(buf[4 + 1], 5) = 1 \/ Bit(buf[4 + 1], 0) = 1))

\* a full-length response with the momentary bit 0x01 alone in byte 4 and
\* the paper bit set in byte 3 has been decoded to no paper, button down
C23_Witness ==
    /\ Len(buf) = 64 /\ buf[4] = 128 /\ buf[5] = 1
    /\ decoded = Some([paper |-> FALSE, button |-> TRUE])

\* C24: in every iteration of the inner poll loop at most one dispatch is
\* started: a gesture finalization's and an event's never both.
C24_OneDispatchPerIteration ==
    iterCalls <= 1

\* C25: in ConfigMode, whenever run() is about to poll, the gesture agrees
\* with the baseline: Pressed(n) goes with a baseline whose button is true,
\* Released(n, since) with a baseline whose button is false.
C25_GestureAgreesWithBaseline ==
    (mode.kind = "ConfigMode" /\ pc = "poll") =>
        /\ gesture.tag = "Pressed" => (prev # None /\ prev[1].button)
        /\ gesture.tag = "Released" => (prev # None /\ ~prev[1].button)

\* C26: in every reachable state the count of Pressed(count) and of
\* Released(count, since) is at least 1, so the count check_gesture_timeout
\* looks up in profiles is never 0.
C26_PressCountAtLeastOne ==
    /\ gesture.tag \in {"Pressed", "Released"} => gesture.n >= 1
    /\ (pc = "check" /\ TimeoutElapsed) => gesture.n >= 1

\* a released run of two presses is handed to finalization
C26_Witness ==
    pc = "check" /\ TimeoutElapsed /\ gesture.n = 2

\* C27: in LogOnly and Legacy modes the gesture is Idle in every reachable
\* state: no button event changes it, the timeout check never returns an
\* action, and no finalization or scan dispatch takes place.
C27_NoGestureOutsideConfigMode ==
    mode.kind \in {"LogOnly", "Legacy"} =>
        /\ gesture = Idle
        /\ check_gesture_timeout(gesture, mode, now) = None
        /\ pc \notin {"gesture_handler", "gesture_reopen", "gesture_reseed"}
        /\ running # None => running[1].args[1] # "scan"

\* LogOnly has processed a release of the button and the gesture is Idle
C27_Witness ==
    /\ mode.kind = "LogOnly" /\ pc = "sleep" /\ reported = <<"button-up">>
    /\ gesture = Idle

\* C28: after an iteration whose poll succeeded and dispatched nothing, the
\* baseline is the snapshot polled in that iteration, and nothing is polled
\* before the next iteration's poll: every diff inside a session compares the
\* snapshot polled with the snapshot polled just before it.
C28_BaselineIsLastPolledSnapshot ==
    /\ (pc = "sleep" /\ state # None) => prev = state
    /\ (pc = "match" /\ sessPrev # None) => prev = sessPrev

\* a poll that changed nothing but was taken during a press left its snapshot
\* as the baseline, and no handler ran in the iteration
C28_Witness ==
    /\ pc = "sleep" /\ iterCalls = 0 /\ running = None
    /\ state = Some([paper |-> TRUE, button |-> TRUE]) /\ prev = state
    /\ sessPrev = state

\* C29: the timeout check precedes every status poll of the inner loop, and a
\* run that is Released leaves that state inside a session only by being
\* finalized at a timeout check or by an observed ButtonDown; it is not given
\* up without finalization while the polls succeed.
C29_ReleasedRunIsFinalized ==
    [][/\ pc' = "poll" => pc \in {"poll", "check", "gesture_reseed"}
       /\ (/\ mode.kind = "ConfigMode" /\ pc \in InnerLoop
           /\ gesture.tag = "Released" /\ gesture' # gesture) =>
             \/ pc = "check" /\ TimeoutElapsed /\ gesture' = Idle
             \/ gesture'.tag = "Pressed"]_vars

\* the control points of a gesture dispatch: handler, reacquire, re-seed poll
GestureDispatchPcs == {"gesture_handler", "gesture_reopen", "gesture_reseed"}

\* C30: a finalized run is dispatched at most once: a scan handler is started
\* only by a timeout check that finds the gesture Released and sets it to
\* Idle in the same step; the gesture is Idle throughout the dispatch and
\* after it, whether the handler fails, the reacquire fails or the re-seed
\* poll fails; and Released is entered only by a ButtonUp from Pressed.
C30_FinalizedRunDispatchedOnce ==
    [][/\ (running' # None /\ running' # running /\ running'[1].args[1] = "scan") =>
             (pc = "check" /\ gesture.tag = "Released" /\ gesture' = Idle)
       /\ pc \in GestureDispatchPcs => (gesture = Idle /\ gesture' = Idle)
       /\ (gesture'.tag = "Released" /\ gesture' # gesture) =>
             (pc = "match" /\ gesture.tag = "Pressed")]_vars

\* the scan handler of a finalized run exited non-zero; the gesture is Idle
C30_Witness ==
    pc = "gesture_reopen" /\ status = "nonzero" /\ gesture = Idle /\ ~handle

\* C31: in ConfigMode a poll whose only change is a paper change starts the
\* config's handler with (paper-in) or (paper-out) in that step, with the
\* link released, and leaves the gesture as it is: variant, count and
\* release timestamp.
C31_PaperOnlyPollKeepsGesture ==
    [][/\ GesturedDiffIs(<<"PaperIn">>) =>
             /\ running' = Some([script |-> mode.config.handler, args |-> <<"paper-in">>])
             /\ pc' = "handler" /\ ~handle'
             /\ gesture' = gesture
       /\ GesturedDiffIs(<<"PaperOut">>) =>
             /\ running' = Some([script |-> mode.config.handler, args |-> <<"paper-out">>])
             /\ pc' = "handler" /\ ~handle'
             /\ gesture' = gesture]_vars

\* paper-in is dispatched while a released run waits for its timeout; the
\* baseline shows the poll changed the paper alone
C31_Witness ==
    /\ mode.kind = "ConfigMode" /\ pc = "handler"
    /\ running = Some([script |-> mode.config.handler, args |-> <<"paper-in">>])
    /\ gesture.tag = "Released" /\ gesture.n = 2 /\ gesture.ts > 0
    /\ prev # None /\ ~prev[1].paper /\ ~prev[1].button

====
